---------------------------- MODULE Spec2Model ----------------------------
(***************************************************************************)
(* A model of queryLogEmulator.c: the base vocabulary as lines held in     *)
(* one memory image, the binary search over it (vocabCmp, bsearch), the    *)
(* parsing of the matched line's numeric fields (getRankInBase), and the   *)
(* loop of main that turns each query word into a word of the emulated     *)
(* vocabulary or into a "noexist<n>" placeholder.                          *)
(*                                                                         *)
(* Bytes are naturals (their character codes), text is a sequence of       *)
(* bytes, a pointer is a 1-origin offset into a memory image, and a read   *)
(* past the end of an image yields NUL (the zero fill after a mapped       *)
(* file).  A random draw d stands for the real number d / DrawScale.       *)
(***************************************************************************)
EXTENDS Integers, Sequences, FiniteSets, TLC

\* ----------------------------------------------------------------- bounds
MaxVocab  == 2   \* lines in the base vocabulary of a run
MaxEmu    == 2   \* lines in the emulated vocabulary
MaxLines  == 2   \* query lines read in a run
MaxTokens == 2   \* words in a query line

\* ------------------------------------------------------ program constants
NUL   == 0
Tab   == 9
LF    == 10
CR    == 13
Space == 32
NOT_FOUND   == -1
ERR_MISSING == 1818
ERR_FORMAT  == 2929
DrawScale   == 10000000
UpperThird  == 6666667
LowerThird  == 3333333
FirstField  == 2
LastField   == 4

\* "noexist", the initial content of main's noexist buffer
NoexistPrefix == <<110, 111, 101, 120, 105, 115, 116>>

\* ---------------------------------------------------------------- memory
ByteAt(mem, p) == IF p \in 1..Len(mem) THEN mem[p] ELSE NUL

RECURSIVE Flatten(_)
Flatten(ss) == IF ss = <<>> THEN <<>> ELSE Head(ss) \o Flatten(Tail(ss))

\* the offsets at which the lines of a file start, as load_all_lines keeps them
RECURSIVE LineStarts(_, _)
LineStarts(ls, at) ==
  IF ls = <<>> THEN <<>>
  ELSE <<at>> \o LineStarts(Tail(ls), at + Len(Head(ls)))

\* sprintf("%d", n) for n >= 0
RECURSIVE Decimal(_)
Decimal(n) == IF n < 10 THEN <<48 + n>> ELSE Decimal(n \div 10) \o <<48 + (n % 10)>>

\* ------------------------------------------------------------- vocabCmp
RECURSIVE vocabCmpFrom(_, _, _, _)
vocabCmpFrom(im, i, jm, j) ==
  LET ci == ByteAt(im, i)
      cj == ByteAt(jm, j)
  IN  IF ci > Space /\ cj > Space /\ ci = cj THEN vocabCmpFrom(im, i + 1, jm, j + 1)
      ELSE IF ci <= Space /\ cj <= Space THEN 0
      ELSE IF cj <= Space THEN 1
      ELSE IF ci <= Space THEN -1
      ELSE IF ci < cj THEN -1
      ELSE 1

\* vocabCmp with a fault: the key matches any line it is a prefix of
vocabCmpPrefix(im, i, jm, j) ==
  LET c == vocabCmpFrom(im, i, jm, j)
      n == Len(im)
  IN  IF \A k \in 0..(n - 1) : ByteAt(im, i + k) = ByteAt(jm, j + k) THEN 0 ELSE c

vocabCmp(im, i, jm, j) == vocabCmpFrom(im, i, jm, j)

\* bsearch over the line pointers: 0 stands for NULL, else the 1-origin line
RECURSIVE bsearchFrom(_, _, _, _, _)
bsearchFrom(key, mem, lines, l, u) ==
  IF l >= u THEN 0
  ELSE LET idx == (l + u) \div 2
           c   == vocabCmp(key, 1, mem, lines[idx + 1])
       IN  IF c < 0 THEN bsearchFrom(key, mem, lines, l, idx)
           ELSE IF c > 0 THEN bsearchFrom(key, mem, lines, idx + 1, u)
           ELSE idx + 1

bsearch(key, mem, lines) == bsearchFrom(key, mem, lines, 0, Len(lines))

\* --------------------------------------------------------------- strtod
IsSpace(c) == c \in {9, 10, 11, 12, 13, 32}
IsDigit(c) == c \in 48..57

RECURSIVE SkipSpace(_, _)
SkipSpace(mem, p) == IF IsSpace(ByteAt(mem, p)) THEN SkipSpace(mem, p + 1) ELSE p

RECURSIVE Digits(_, _, _)
Digits(mem, p, acc) ==
  IF IsDigit(ByteAt(mem, p)) THEN Digits(mem, p + 1, 10 * acc + (ByteAt(mem, p) - 48))
  ELSE [val |-> acc, q |-> p]

\* strtod on decimal integers: leading white space, an optional sign, digits.
\* With no digit there is no conversion: the value is 0 and q is p itself.
strtod(mem, p) ==
  LET s    == SkipSpace(mem, p)
      neg  == ByteAt(mem, s) = 45
      d    == IF ByteAt(mem, s) \in {43, 45} THEN s + 1 ELSE s
      r    == Digits(mem, d, 0)
  IN  IF ~IsDigit(ByteAt(mem, d)) THEN [val |-> 0, q |-> p]
      ELSE [val |-> IF neg THEN 0 - r.val ELSE r.val, q |-> r.q]

\* -------------------------------------------------------- getRankInBase
RECURSIVE SkipWord(_, _)
SkipWord(mem, p) == IF ByteAt(mem, p) > Space THEN SkipWord(mem, p + 1) ELSE p

\* the for loop over the fields 2, 3, 4 of the matched line
RECURSIVE readFields(_, _, _, _)
readFields(mem, p, field, rank) ==
  IF field > LastField THEN rank
  ELSE LET r == strtod(mem, p)
           c == ByteAt(mem, r.q)
       IN  IF c = Tab THEN readFields(mem, r.q + 1, field + 1, r.val)
           ELSE IF c < Space /\ field # LastField THEN ERR_MISSING
           ELSE IF c # NUL /\ c # CR /\ c # LF THEN ERR_FORMAT
           ELSE readFields(mem, p, field + 1, r.val)

\* getRankInBase with a fault: the second numeric field is returned as the rank
getRankInBaseField3(globals, params, inWord) ==
  LET e == bsearch(inWord, globals.baseVocabInMemory, globals.baseVocabLines)
      mem == globals.baseVocabInMemory
      p == SkipWord(mem, globals.baseVocabLines[e]) + 1
      f2 == strtod(mem, p)
  IN  IF e = 0 THEN NOT_FOUND ELSE strtod(mem, f2.q + 1).val

getRankInBase(globals, params, inWord) ==
  LET e == bsearch(inWord, globals.baseVocabInMemory, globals.baseVocabLines)
  IN  IF e = 0 THEN NOT_FOUND
      ELSE readFields(globals.baseVocabInMemory,
                      SkipWord(globals.baseVocabInMemory, globals.baseVocabLines[e]) + 1,
                      FirstField, 0)

\* ------------------------------------------------- the substitution policy
\* the word the output loop writes from p: the bytes up to the first byte <= ' '
RECURSIVE WordFrom(_, _)
WordFrom(mem, p) ==
  IF ByteAt(mem, p) > Space THEN <<ByteAt(mem, p)>> \o WordFrom(mem, p + 1) ELSE <<>>

\* emuVocabLines[rank0] as the output loop writes it; an index outside the
\* array reads memory the program does not own, written here as "?"
outWordAt(globals, rank0) ==
  IF rank0 \in 0..(globals.emuVocabLineCount - 1)
  THEN WordFrom(globals.emuVocabInMemory, globals.emuVocabLines[rank0 + 1])
  ELSE <<63>>

\* (int)floor(rand_val(0) * (double)emuVocabLineCount)
randomRank(globals, d) == (d * globals.emuVocabLineCount) \div DrawScale

\* jitter with a fault: the lower third always decrements
jitterUnguarded(params, rank0, r) ==
  IF ~(params.obfuscate /\ rank0 >= 0) THEN [rank0 |-> rank0, used |-> 0]
  ELSE IF r > UpperThird THEN [rank0 |-> rank0 + 1, used |-> 1]
  ELSE IF r < LowerThird THEN [rank0 |-> rank0 - 1, used |-> 1]
  ELSE [rank0 |-> rank0, used |-> 1]

\* the jitter of rank0 by one draw r; used is the number of draws consumed
jitter(params, rank0, r) ==
  IF ~(params.obfuscate /\ rank0 >= 0) THEN [rank0 |-> rank0, used |-> 0]
  ELSE IF r > UpperThird THEN [rank0 |-> rank0 + 1, used |-> 1]
  ELSE IF rank0 > 0 /\ r < LowerThird THEN [rank0 |-> rank0 - 1, used |-> 1]
  ELSE [rank0 |-> rank0, used |-> 1]

\* substitute with a fault: a rank beyond the emulated list is treated as not found
substituteOverflowAsOOV(globals, params, rank1, draws, noexistNum) ==
  LET j == jitter(params, rank1 - 1, draws[1])
      rnd == randomRank(globals, draws[j.used + 1])
  IN  IF j.rank0 < 0 \/ j.rank0 >= globals.emuVocabLineCount
      THEN IF params.preserveNoExists
           THEN [rank0 |-> j.rank0, jit |-> j.rank0, emuIndex |-> -1,
                 p |-> NoexistPrefix \o Decimal(noexistNum),
                 noexistNum |-> noexistNum + 1, used |-> j.used]
           ELSE [rank0 |-> rnd, jit |-> j.rank0, emuIndex |-> rnd,
                 p |-> outWordAt(globals, rnd),
                 noexistNum |-> noexistNum, used |-> j.used + 1]
      ELSE [rank0 |-> j.rank0, jit |-> j.rank0, emuIndex |-> j.rank0,
            p |-> outWordAt(globals, j.rank0),
            noexistNum |-> noexistNum, used |-> j.used]

\* substitute with a fault: the overflow test is off by one (> for >=)
substituteOffByOne(globals, params, rank1, draws, noexistNum) ==
  LET j == jitter(params, rank1 - 1, draws[1])
      rnd == randomRank(globals, draws[j.used + 1])
  IN  IF j.rank0 < 0
      THEN IF params.preserveNoExists
           THEN [rank0 |-> j.rank0, jit |-> j.rank0, emuIndex |-> -1,
                 p |-> NoexistPrefix \o Decimal(noexistNum),
                 noexistNum |-> noexistNum + 1, used |-> j.used]
           ELSE [rank0 |-> rnd, jit |-> j.rank0, emuIndex |-> rnd,
                 p |-> outWordAt(globals, rnd),
                 noexistNum |-> noexistNum, used |-> j.used + 1]
      ELSE IF j.rank0 > globals.emuVocabLineCount
      THEN [rank0 |-> rnd, jit |-> j.rank0, emuIndex |-> rnd,
            p |-> outWordAt(globals, rnd),
            noexistNum |-> noexistNum, used |-> j.used + 1]
      ELSE [rank0 |-> j.rank0, jit |-> j.rank0, emuIndex |-> j.rank0,
            p |-> outWordAt(globals, j.rank0),
            noexistNum |-> noexistNum, used |-> j.used]

\* substitute with a fault: verbose runs draw once more for a diagnostic
substituteVerboseDraw(globals, params, rank1, draws, noexistNum) ==
  LET j == jitter(params, rank1 - 1, draws[1])
      v == IF params.verbose THEN 1 ELSE 0
      rnd == randomRank(globals, draws[j.used + 1])
  IN  IF j.rank0 < 0
      THEN IF params.preserveNoExists
           THEN [rank0 |-> j.rank0, jit |-> j.rank0, emuIndex |-> -1,
                 p |-> NoexistPrefix \o Decimal(noexistNum),
                 noexistNum |-> noexistNum + 1, used |-> j.used + v]
           ELSE [rank0 |-> rnd, jit |-> j.rank0, emuIndex |-> rnd,
                 p |-> outWordAt(globals, rnd),
                 noexistNum |-> noexistNum, used |-> j.used + 1]
      ELSE IF j.rank0 >= globals.emuVocabLineCount
      THEN [rank0 |-> rnd, jit |-> j.rank0, emuIndex |-> rnd,
            p |-> outWordAt(globals, rnd),
            noexistNum |-> noexistNum, used |-> j.used + 1]
      ELSE [rank0 |-> j.rank0, jit |-> j.rank0, emuIndex |-> j.rank0,
            p |-> outWordAt(globals, j.rank0),
            noexistNum |-> noexistNum, used |-> j.used]

\* The body of main's loop over the words of a query, from the rank that
\* getRankInBase returned to the pointer p that is written out.  draws are
\* the next two values of rand_val; jit is rank0 after the jitter, emuIndex
\* the index at which emuVocabLines is read (-1 when it is not read).
substitute(globals, params, rank1, draws, noexistNum) ==
  LET j == jitter(params, rank1 - 1, draws[1])
      rnd == randomRank(globals, draws[j.used + 1])
  IN  IF j.rank0 < 0
      THEN IF params.preserveNoExists
           THEN [rank0 |-> j.rank0, jit |-> j.rank0, emuIndex |-> -1,
                 p |-> NoexistPrefix \o Decimal(noexistNum),
                 noexistNum |-> noexistNum + 1, used |-> j.used]
           ELSE [rank0 |-> rnd, jit |-> j.rank0, emuIndex |-> rnd,
                 p |-> outWordAt(globals, rnd),
                 noexistNum |-> noexistNum, used |-> j.used + 1]
      ELSE IF j.rank0 >= globals.emuVocabLineCount
      THEN [rank0 |-> rnd, jit |-> j.rank0, emuIndex |-> rnd,
            p |-> outWordAt(globals, rnd),
            noexistNum |-> noexistNum, used |-> j.used + 1]
      ELSE [rank0 |-> j.rank0, jit |-> j.rank0, emuIndex |-> j.rank0,
            p |-> outWordAt(globals, j.rank0),
            noexistNum |-> noexistNum, used |-> j.used]

\* what the word's processing prints on stdout (tags of the messages)
diagnostics(params, rank1, res) ==
  (IF rank1 = ERR_MISSING THEN <<"missing field">> ELSE <<>>)
  \o (IF rank1 = ERR_FORMAT THEN <<"unexpected format">> ELSE <<>>)
  \o (IF params.verbose /\ res.jit < 0 THEN <<"not found">> ELSE <<>>)
  \o (IF params.verbose /\ res.jit >= 0 THEN <<"at rank0">> ELSE <<>>)

\* the bytes the loop body writes for the word at position q of its query:
\* a space before every word but the first, then the word at p
writeWord(q, p) == (IF q > 0 THEN <<Space>> ELSE <<>>) \o p

\* ------------------------------------------------------------ the inputs
\* A line of <baseStem>_vocab.tsv: the word, then its tab-separated fields
\* (occFreq, DF, rank when all is well), then the line terminator.
LineOf(e) == e.word \o Flatten([i \in 1..Len(e.fields) |-> <<Tab>> \o e.fields[i]]) \o e.eol

\* the fields of the well-formed lines with the ranks 1 .. MaxEmu + 2
RankedFields ==
  {[fields |-> <<Decimal(10), Decimal(5), Decimal(r)>>, eol |-> <<LF>>] :
      r \in 1..(MaxEmu + 2)}

\* further well-formed lines: a rank of two digits, CR LF, a fifth column
MoreWellFormedFields ==
  {[fields |-> <<Decimal(10), Decimal(5), Decimal(12)>>, eol |-> <<LF>>],
   [fields |-> <<Decimal(10), Decimal(5), Decimal(2)>>, eol |-> <<CR, LF>>],
   [fields |-> <<Decimal(3), Decimal(2), Decimal(1), Decimal(7)>>, eol |-> <<LF>>]}

\* three numeric fields, the rank being the number 0
ZeroRankFields ==
  {[fields |-> <<Decimal(10), Decimal(5), Decimal(0)>>, eol |-> <<LF>>]}

\* malformed lines: the rank missing, the rank empty, the rank ending on "z",
\* occFreq empty before three numbers
MalformedFields ==
  {[fields |-> <<Decimal(10), Decimal(5)>>, eol |-> <<LF>>],
   [fields |-> <<Decimal(10), Decimal(5), <<>> >>, eol |-> <<LF>>],
   [fields |-> <<Decimal(10), Decimal(5), <<50, 122>> >>, eol |-> <<LF>>],
   [fields |-> << <<>>, Decimal(5), Decimal(2), Decimal(7)>>, eol |-> <<LF>>]}

\* further malformed lines: one field, no field, DF empty, the rank ending
\* on a space, occFreq not a number
MoreMalformedFields ==
  {[fields |-> <<Decimal(10)>>, eol |-> <<LF>>],
   [fields |-> <<>>, eol |-> <<LF>>],
   [fields |-> <<Decimal(10), <<>>, Decimal(2)>>, eol |-> <<LF>>],
   [fields |-> <<Decimal(10), Decimal(5), <<50, Space>> >>, eol |-> <<LF>>],
   [fields |-> << <<122>>, Decimal(5), Decimal(2)>>, eol |-> <<LF>>]}

RunFields == RankedFields \cup MoreWellFormedFields \cup ZeroRankFields \cup MalformedFields

LookupFields == RunFields \cup MoreMalformedFields

\* the words "a", "ab", "b" and "ba": prefixes and extensions of one another
Words == {<<97>>, <<97, 98>>, <<98>>, <<98, 97>>}

\* u sorts before v: u is a proper prefix of v, or the first differing byte decides
WordLess(u, v) ==
  \E k \in 1..Len(v) :
     /\ \A i \in 1..(k - 1) : i <= Len(u) /\ u[i] = v[i]
     /\ (k > Len(u) \/ u[k] < v[k])

SortedWordSeqs(n) ==
  {ws \in [1..n -> Words] : \A i \in 1..(n - 1) : WordLess(ws[i], ws[i + 1])}

\* a vocabulary on the words ws: line k has the fields c, the others are
\* well formed with their own position as rank
MkFile(ws, k, c) ==
  [i \in 1..Len(ws) |->
     IF i = k THEN [word |-> ws[i], fields |-> c.fields, eol |-> c.eol]
     ELSE [word |-> ws[i], fields |-> <<Decimal(10), Decimal(5), Decimal(i)>>,
           eol |-> <<LF>>]]

\* the vocabularies of the lookups: every sorted choice of at most MaxVocab + 1
\* of the words
LookupFiles ==
  UNION {UNION {{MkFile(ws, k, c) : k \in 1..n, c \in LookupFields} :
                   ws \in SortedWordSeqs(n)} : n \in 1..(MaxVocab + 1)}

\* the vocabularies of the runs: the MaxVocab words "a", "ab", "ba", "bb", ...;
\* "b" is in none of them
RunWords(n) == [i \in 1..n |-> IF i = 1 THEN <<97>> ELSE IF i = 2 THEN <<97, 98>>
                                ELSE <<98, 94 + i>>]

BaseFiles == {MkFile(RunWords(MaxVocab), k, c) : k \in 1..MaxVocab, c \in RunFields}

\* the words of the queries of the runs
QueryWords == {<<97>>, <<97, 98>>, <<98>>}

\* <emuStem>_vocab_by_freq.tsv with n lines: the words "za", "zb", ..., the
\* odd lines with further columns
EmuWord(i) == <<122, 96 + i>>

EmuLine(i) ==
  EmuWord(i) \o (IF i % 2 = 1 THEN <<Tab>> \o Decimal(100 - i) \o <<LF>> ELSE <<LF>>)

EmuFile(n) == [i \in 1..n |-> EmuLine(i)]

\* load_all_lines_from_textfile on both vocabularies
Load(base, emu) ==
  LET bl == [i \in 1..Len(base) |-> LineOf(base[i])]
  IN  [baseVocabInMemory   |-> Flatten(bl),
       baseVocabLines      |-> LineStarts(bl, 1),
       baseVocabLineCount  |-> Len(bl),
       emuVocabInMemory    |-> Flatten(emu),
       emuVocabLines       |-> LineStarts(emu, 1),
       emuVocabLineCount   |-> Len(emu)]

\* the values rand_val returns, in units of 1/DrawScale: the lower third, the
\* two values between the decimal constants and the exact thirds, the upper third
Draws == {0, LowerThird, UpperThird, DrawScale - 1}

\* the values of the second draw of a word: one value when neither run makes it
SecondDraws(used, sused) == IF used > 1 \/ sused > 1 THEN Draws ELSE {0}

\* ------------------------------------------------------------- the state
VARIABLES
  baseFile,      \* the base vocabulary file as written (its lines' parts)
  globals,       \* both vocabularies in memory, and their line pointers
  params,        \* obfuscate, preserveNoExists, verbose
  pc,            \* "fgets": at the head of the while loop; "words": in the for
                 \* loop; "done": after the loop; "undefined": after the read
                 \* of fgetsBuf[-1] ran off the buffer; "lookup": a lookup alone
  qCountI,       \* queries read
  qCountO,       \* output lines finished
  queryLength,   \* words in the current query
  q,             \* words of the current query already processed
  noexistNum,    \* the placeholder counter
  queryOutfile,  \* the bytes the last step appended to the output file
  stdout,        \* the messages printed for the last word
  last,          \* the last word processed: the locals of the loop body
  oovSeen,       \* with preserveNoExists: the words read so far that no line
                 \* of the base vocabulary holds
  shadow         \* the same run with verbose flipped, on the same draws

vars == <<baseFile, globals, params, pc, qCountI, qCountO, queryLength, q,
          noexistNum, queryOutfile, stdout, last, oovSeen, shadow>>

NoWord ==
  [acted |-> FALSE, inWord |-> <<>>, rank1 |-> NOT_FOUND, r |-> -1, jit |-> -1,
   rank0 |-> -1, emuIndex |-> -1, p |-> <<>>, used |-> 0, before |-> 0]

\* the line of the vocabulary file f that holds the word w (0: none does)
LineHolding(f, w) ==
  IF \E i \in 1..Len(f) : f[i].word = w
  THEN CHOOSE i \in 1..Len(f) : f[i].word = w
  ELSE 0

InitRun ==
  /\ pc = "fgets"
  /\ qCountI = 0
  /\ qCountO = 0
  /\ queryLength = 0
  /\ q = 0
  /\ noexistNum = 0
  /\ queryOutfile = <<>>
  /\ stdout = <<>>
  /\ last = NoWord
  /\ oovSeen = 0
  /\ shadow = [noexistNum |-> 0, queryOutfile |-> <<>>, used |-> 0]

Init ==
  /\ baseFile \in BaseFiles
  /\ \E n \in 1..MaxEmu : globals = Load(baseFile, EmuFile(n))
  /\ params \in [obfuscate : BOOLEAN, preserveNoExists : BOOLEAN, verbose : BOOLEAN]
  /\ InitRun

\* fgets returns a line that holds k words (k = 0: a line of spaces)
ReadLine ==
  /\ pc = "fgets"
  /\ qCountI < MaxLines
  /\ \E k \in 0..MaxTokens : queryLength' = k
  /\ qCountI' = qCountI + 1
  /\ q' = 0
  /\ pc' = "words"
  /\ queryOutfile' = <<>>
  /\ stdout' = <<>>
  /\ last' = NoWord
  /\ shadow' = [shadow EXCEPT !.queryOutfile = <<>>, !.used = 0]
  /\ UNCHANGED <<baseFile, globals, params, qCountO, noexistNum, oovSeen>>

\* fgets returns a line of control characters only ("\n"): the strip loop
\* takes lineLen to 0 and then reads fgetsBuf[-1], a byte the buffer does not
\* hold.  That byte ends the loop (a query of no words) or does not.
ReadBlankLine ==
  /\ pc = "fgets"
  /\ qCountI < MaxLines
  /\ qCountI' = qCountI + 1
  /\ \E stops \in BOOLEAN : pc' = IF stops THEN "words" ELSE "undefined"
  /\ queryLength' = 0
  /\ q' = 0
  /\ queryOutfile' = <<>>
  /\ stdout' = <<>>
  /\ last' = NoWord
  /\ shadow' = [shadow EXCEPT !.queryOutfile = <<>>, !.used = 0]
  /\ UNCHANGED <<baseFile, globals, params, qCountO, noexistNum, oovSeen>>

\* One turn of the loop over the words of the query, for the word w and the
\* draws d1, d2 that the next two calls of rand_val return.
NextWord ==
  /\ pc = "words"
  /\ q < queryLength
  /\ \E w \in QueryWords :
     \E rank1 \in {getRankInBase(globals, params, w)} :
     \E sp \in {[params EXCEPT !.verbose = ~params.verbose]} :
     \E srank \in {getRankInBase(globals, sp, w)} :
     \E d1 \in Draws :
     \E d2 \in SecondDraws(substitute(globals, params, rank1, <<d1, 0>>, noexistNum).used,
                           substitute(globals, sp, srank, <<d1, 0>>, shadow.noexistNum).used) :
     \E res \in {substitute(globals, params, rank1, <<d1, d2>>, noexistNum)} :
     \E sr \in {substitute(globals, sp, srank, <<d1, d2>>, shadow.noexistNum)} :
       /\ noexistNum' = res.noexistNum
       /\ queryOutfile' = writeWord(q, res.p)
       /\ stdout' = diagnostics(params, rank1, res)
       /\ last' = [acted |-> TRUE, inWord |-> w, rank1 |-> rank1,
                   r |-> IF jitter(params, rank1 - 1, d1).used = 1 THEN d1 ELSE -1,
                   jit |-> res.jit, rank0 |-> res.rank0,
                   emuIndex |-> res.emuIndex, p |-> res.p,
                   used |-> res.used, before |-> noexistNum]
       /\ oovSeen' = IF params.preserveNoExists /\ LineHolding(baseFile, w) = 0
                     THEN oovSeen + 1 ELSE oovSeen
       /\ shadow' = [noexistNum |-> sr.noexistNum,
                     queryOutfile |-> writeWord(q, sr.p),
                     used |-> sr.used]
  /\ q' = q + 1
  /\ UNCHANGED <<baseFile, globals, params, pc, qCountI, qCountO, queryLength>>

\* the end of the for loop: the line terminator is written
EndOfQuery ==
  /\ pc = "words"
  /\ q = queryLength
  /\ queryOutfile' = <<LF>>
  /\ shadow' = [shadow EXCEPT !.queryOutfile = <<LF>>, !.used = 0]
  /\ qCountO' = qCountO + 1
  /\ pc' = "fgets"
  /\ stdout' = <<>>
  /\ last' = NoWord
  /\ UNCHANGED <<baseFile, globals, params, qCountI, queryLength, q, noexistNum,
                 oovSeen>>

\* fgets returns NULL
EndOfFile ==
  /\ pc = "fgets"
  /\ pc' = "done"
  /\ UNCHANGED <<baseFile, globals, params, qCountI, qCountO, queryLength, q,
                 noexistNum, queryOutfile, stdout, last, oovSeen, shadow>>

Next == ReadLine \/ ReadBlankLine \/ NextWord \/ EndOfQuery \/ EndOfFile

Spec == Init /\ [][Next]_vars

\* ------------------------------------------------------ the lookups alone
InitLookup ==
  /\ baseFile \in LookupFiles
  /\ globals = Load(baseFile, EmuFile(1))
  /\ params \in [obfuscate : {FALSE}, preserveNoExists : {FALSE}, verbose : BOOLEAN]
  /\ InitRun

\* getRankInBase on the word w
Lookup ==
  /\ pc = "fgets"
  /\ \E w \in Words :
       last' = [NoWord EXCEPT !.acted = TRUE, !.inWord = w,
                              !.rank1 = getRankInBase(globals, params, w)]
  /\ UNCHANGED <<baseFile, globals, params, pc, qCountI, qCountO, queryLength, q,
                 noexistNum, queryOutfile, stdout, oovSeen, shadow>>

NextLookup == Lookup

SpecLookup == InitLookup /\ [][NextLookup]_vars

\* ------------------------------------------------- the claims' vocabulary
\* a field that is a number: digits, at least one
IsNumber(f) == f # <<>> /\ \A i \in 1..Len(f) : IsDigit(f[i])

\* the number a field of digits denotes
RECURSIVE ValueOf(_)
ValueOf(f) ==
  IF f = <<>> THEN 0 ELSE 10 * ValueOf(SubSeq(f, 1, Len(f) - 1)) + (f[Len(f)] - 48)

\* a line with its three numeric fields occFreq, DF and rank
WellFormed(e) == Len(e.fields) >= 3 /\ \A i \in 1..3 : IsNumber(e.fields[i])

RankOf(e) == ValueOf(e.fields[3])

\* the line of the base vocabulary that holds the last word processed (0: none)
lastLine == LineHolding(baseFile, last.inWord)

emuSize == globals.emuVocabLineCount

EmuWords == {EmuWord(i) : i \in 1..emuSize}

\* the separator the output holds before the last word processed
lastSeparator == IF q > 1 THEN <<Space>> ELSE <<>>

\* ---------------------------------------------------------------- claims
\* C1: with obfuscate off, a query word that the base vocabulary holds with
\* the 1-origin rank r <= size of the emulated list is written as the
\* emulated list's entry r - 1, whatever preserveNoExists and the draws are.
C1_RankMapsToEmuWord ==
  (/\ last.acted
   /\ ~params.obfuscate
   /\ lastLine # 0
   /\ WellFormed(baseFile[lastLine])
   /\ RankOf(baseFile[lastLine]) \in 1..emuSize)
  => /\ last.p = EmuWord(RankOf(baseFile[lastLine]))
     /\ queryOutfile = lastSeparator \o EmuWord(RankOf(baseFile[lastLine]))

C1_Witness ==
  /\ last.acted
  /\ ~params.obfuscate
  /\ params.preserveNoExists
  /\ lastLine # 0
  /\ WellFormed(baseFile[lastLine])
  /\ RankOf(baseFile[lastLine]) = 2
  /\ emuSize >= 2
  /\ last.p = EmuWord(2)

\* C2: with preserveNoExists on, the k-th word of the run that the base
\* vocabulary does not hold is written as "noexist" followed by k - 1, and
\* the counter rises by one for such a word and for nothing else.
C2_PlaceholderPerAbsentWord ==
  params.preserveNoExists =>
    /\ noexistNum = oovSeen
    /\ (last.acted /\ lastLine = 0) =>
          /\ last.p = NoexistPrefix \o Decimal(oovSeen - 1)
          /\ noexistNum = last.before + 1
    /\ (last.acted /\ lastLine # 0) => noexistNum = last.before

\* C3: a query word whose base rank is greater than the size of the emulated
\* list is written as a word of the emulated list, never as a placeholder,
\* and leaves the placeholder counter alone.
C3_OverflowDrawsFromEmu ==
  (/\ last.acted
   /\ lastLine # 0
   /\ WellFormed(baseFile[lastLine])
   /\ RankOf(baseFile[lastLine]) > emuSize)
  => /\ last.p \in EmuWords
     /\ queryOutfile = lastSeparator \o last.p
     /\ noexistNum = last.before

C3_Witness ==
  /\ last.acted
  /\ params.preserveNoExists
  /\ params.obfuscate
  /\ lastLine # 0
  /\ WellFormed(baseFile[lastLine])
  /\ RankOf(baseFile[lastLine]) > emuSize + 1
  /\ last.used = 2
  /\ last.p \in EmuWords

\* C4: when the lookup matches a malformed line of the base vocabulary the
\* run aborts: no word is written for the query word and the value returned
\* for the error never picks a word of the emulated list.
C4_MalformedLineAborts ==
  (last.acted /\ lastLine # 0 /\ ~WellFormed(baseFile[lastLine]))
  => /\ last.p = <<>>
     /\ last.emuIndex = -1
     /\ queryOutfile = <<>>

\* C5: on a sorted base vocabulary the lookup of w returns the rank field of
\* the line whose word is w, and NOT_FOUND when no line's word is w, also
\* when w is a proper prefix or an extension of a word of the vocabulary.
C5_LookupExact ==
  last.acted =>
    /\ lastLine = 0 => last.rank1 = NOT_FOUND
    /\ (lastLine # 0 /\ WellFormed(baseFile[lastLine]))
          => last.rank1 = RankOf(baseFile[lastLine])

C5_Witness ==
  /\ last.acted
  /\ last.inWord = <<97>>
  /\ lastLine = 0
  /\ \E i \in 1..Len(baseFile) : baseFile[i].word = <<97, 98>>
  /\ last.rank1 = NOT_FOUND

\* C6: every query line read, of k >= 0 words, gets exactly one output line:
\* its k substituted words in order, one space between two words and none
\* before the first or after the last, then one line terminator.
C6_OneLinePerQuery ==
  /\ pc = "words" => qCountO = qCountI - 1
  /\ pc # "words" => qCountO = qCountI
  /\ (pc # "words" /\ qCountI > 0) => (queryOutfile = <<LF>> /\ q = queryLength)
  /\ last.acted => (queryOutfile = lastSeparator \o last.p /\ last.p # <<>>)

\* C7: verbose has no effect on the output: the run with verbose flipped, on
\* the same inputs and draws, writes the same bytes, consumes as many draws
\* and holds the same placeholder counter.
C7_VerboseNoEffect ==
  /\ shadow.queryOutfile = queryOutfile
  /\ shadow.noexistNum = noexistNum
  /\ shadow.used = last.used

C7_Witness ==
  /\ last.acted
  /\ params.verbose
  /\ stdout # <<>>
  /\ last.used = 2
  /\ shadow.queryOutfile = queryOutfile

\* C8 as amended: with obfuscate on, a word found at 0-origin rank k >= 0 and
\* the draw r get the rank k + 1 if r > 0.6666667, k - 1 if r < 0.3333333 and
\* k > 0, and k otherwise; the result is never negative and differs from k by
\* at most 1.  A word with no rank k >= 0 is not jittered and draws nothing
\* for the jitter.
C8_JitterDecimalThirds ==
  last.acted =>
    IF params.obfuscate /\ last.rank1 - 1 >= 0
    THEN /\ last.r \in Draws
         /\ last.jit = (IF last.r > UpperThird THEN last.rank1
                        ELSE IF last.r < LowerThird /\ last.rank1 - 1 > 0
                             THEN last.rank1 - 2
                        ELSE last.rank1 - 1)
         /\ last.jit >= 0
         /\ last.jit - (last.rank1 - 1) \in {-1, 0, 1}
    ELSE /\ last.r = -1
         /\ last.jit = last.rank1 - 1
         /\ last.used <= 1

C8_Witness ==
  /\ last.acted
  /\ params.obfuscate
  /\ last.rank1 = 1
  /\ last.r = 0
  /\ last.jit = 0

\* C8 as stated: the thresholds are the exact thirds, r > 2/3 and r < 1/3.
C8_JitterExactThirds ==
  (/\ last.acted
   /\ params.obfuscate
   /\ lastLine # 0
   /\ WellFormed(baseFile[lastLine])
   /\ last.rank1 - 1 >= 0) =>
    last.jit = (IF 3 * last.r > 2 * DrawScale THEN last.rank1
                ELSE IF 3 * last.r < DrawScale /\ last.rank1 - 1 > 0
                     THEN last.rank1 - 2
                ELSE last.rank1 - 1)

\* C9: every index at which the emulated list is read lies in [0, size): the
\* read at rank0, the read after the jitter raised rank0 to size, and the
\* random substitutions.
C9_EmuIndexInRange ==
  last.acted =>
    /\ last.emuIndex \in (0..(emuSize - 1)) \cup {-1}
    /\ last.emuIndex = -1 => (params.preserveNoExists /\ last.jit < 0)
    /\ last.emuIndex # -1 => last.p = EmuWord(last.emuIndex + 1)

C9_Witness ==
  /\ last.acted
  /\ params.obfuscate
  /\ last.jit = emuSize
  /\ last.rank1 = emuSize
  /\ last.emuIndex \in 0..(emuSize - 1)

\* C10: the out-of-vocabulary branch is taken only for a word the binary
\* search does not find: a word that is found gets no placeholder and leaves
\* the counter alone, whatever numbers stand in the fields of its line.
C10_FoundWordNeverOOV ==
  (last.acted /\ lastLine # 0 /\ WellFormed(baseFile[lastLine]))
  => /\ last.jit >= 0
     /\ last.p \in EmuWords
     /\ noexistNum = last.before

=============================================================================
